---- MODULE Spec2Model ----
(***************************************************************************)
(* A model of the two point-cloud viewer libraries of this repository      *)
(* (datviz, src/datviz.cpp, and pcl_viewer, src/point_cloud_viewer.cpp),   *)
(* of the GLFW / OpenGL ES state they drive, and of the two example        *)
(* programs (src/example/main.cpp, src/point_cloud_viewer_test.cpp).       *)
(*                                                                         *)
(* Floats are fixed-point integers in thousandths (One = 1.0f); the float  *)
(* NaN is the value NaN.  Matrices are glm::mat4 values, column-major:     *)
(* m[c][r] is column c, row r, both 1..4.                                  *)
(***************************************************************************)
EXTENDS Integers, Sequences, FiniteSets, TLC

\* -------------------------------------------------------------------------
\* float arithmetic
\* -------------------------------------------------------------------------

\* 1.0f in the fixed-point representation of a float.
One == 1000

\* The float NaN (0.0f / 0.0f).
NaN == 0 - (2 ^ 30)

FAdd(a, b) == IF a = NaN \/ b = NaN THEN NaN ELSE a + b

FSub(a, b) == IF a = NaN \/ b = NaN THEN NaN ELSE a - b

FNeg(a) == IF a = NaN THEN NaN ELSE 0 - a

\* Rounds towards zero, so that (-a) * b = -(a * b) as for floats.
FMul(a, b) ==
  IF a = NaN \/ b = NaN THEN NaN
  ELSE IF a * b >= 0 THEN (a * b) \div One
  ELSE 0 - ((0 - (a * b)) \div One)

\* a / b; 0 / 0 is NaN.  A non-zero value over zero (an infinity) has no
\* representation here and is not produced by the inputs of this model.
FDiv(a, b) ==
  IF a = NaN \/ b = NaN THEN NaN
  ELSE IF b = 0 /\ a = 0 THEN NaN
  ELSE IF (a >= 0) = (b > 0) THEN (a * One) \div b
  ELSE 0 - ((0 - (a * One)) \div b)

\* float(w) of an int w.
FloatOfInt(w) == w * One

RECURSIVE SqrtBetween(_, _, _)
\* The largest r in lo..hi with r * r <= n, by bisection.
SqrtBetween(n, lo, hi) ==
  IF lo >= hi THEN lo
  ELSE LET mid == (lo + hi + 1) \div 2
       IN  IF mid * mid <= n THEN SqrtBetween(n, mid, hi)
           ELSE SqrtBetween(n, lo, mid - 1)

\* sqrt(a) for a >= 0 (the root of a * One is below 2^15.5).
FSqrt(a) == IF a = NaN \/ a < 0 THEN NaN ELSE SqrtBetween(a * One, 0, 46340)



\* tan as the quotient of sin and cos, each by its series (|a| is below 1.0
\* in every call made here).
FTan(a) ==
  LET a2 == FMul(a, a)
      a3 == FMul(a2, a)
      a4 == FMul(a2, a2)
      a5 == FMul(a3, a2)
      a6 == FMul(a4, a2)
      a7 == FMul(a5, a2)
      sin == a - (a3 \div 6) + (a5 \div 120) - (a7 \div 5040)
      cos == One - (a2 \div 2) + (a4 \div 24) - (a6 \div 720)
  IN  IF a = NaN THEN NaN ELSE FDiv(sin, cos)

\* -------------------------------------------------------------------------
\* glm vectors and matrices
\* -------------------------------------------------------------------------


Dot3(a, b) == FAdd(FAdd(FMul(a[1], b[1]), FMul(a[2], b[2])), FMul(a[3], b[3]))

Cross3(a, b) ==
  << FSub(FMul(a[2], b[3]), FMul(b[2], a[3])),
     FSub(FMul(a[3], b[1]), FMul(b[3], a[1])),
     FSub(FMul(a[1], b[2]), FMul(b[1], a[2])) >>

\* glm::normalize: v * inversesqrt(dot(v, v)); the zero vector gives NaNs.
Normalize3(v) ==
  LET len == FSqrt(Dot3(v, v))
  IN  <<FDiv(v[1], len), FDiv(v[2], len), FDiv(v[3], len)>>

\* glm::mat4(d): d on the diagonal.
MatDiag(d) == << <<d, 0, 0, 0>>, <<0, d, 0, 0>>, <<0, 0, d, 0>>, <<0, 0, 0, d>> >>



\* glm's operator*: (A * B)[c][r] = sum over k of A[k][r] * B[c][k].
MatMul(A, B) ==
  LET Entry(c, r) ==
        FAdd(FAdd(FMul(A[1][r], B[c][1]), FMul(A[2][r], B[c][2])),
             FAdd(FMul(A[3][r], B[c][3]), FMul(A[4][r], B[c][4])))
      Col(c) == <<Entry(c, 1), Entry(c, 2), Entry(c, 3), Entry(c, 4)>>
  IN  <<Col(1), Col(2), Col(3), Col(4)>>

\* glm::make_mat4x4(ptr): the 16 floats at ptr, column after column.
make_mat4x4(ptr) ==
  << <<ptr[1], ptr[2], ptr[3], ptr[4]>>, <<ptr[5], ptr[6], ptr[7], ptr[8]>>,
     <<ptr[9], ptr[10], ptr[11], ptr[12]>>,
     <<ptr[13], ptr[14], ptr[15], ptr[16]>> >>

\* glm::value_ptr(m): the 16 floats of m, column after column.
value_ptr(m) == m[1] \o m[2] \o m[3] \o m[4]

\* glm::perspective(fovy, aspect, zNear, zFar), right-handed, depth -1..1.
glm_perspective(fovy, aspect, zNear, zFar) ==
  LET tanHalfFovy == FTan(FDiv(fovy, 2 * One))
      depth == FSub(zFar, zNear)
  IN  << <<FDiv(One, FMul(aspect, tanHalfFovy)), 0, 0, 0>>,
         <<0, FDiv(One, tanHalfFovy), 0, 0>>,
         <<0, 0, FNeg(FDiv(FAdd(zFar, zNear), depth)), FNeg(One)>>,
         <<0, 0, FNeg(FDiv(FMul(2 * One, FMul(zFar, zNear)), depth)), 0>> >>

\* glm::lookAt(eye, center, up), right-handed.
glm_lookAt(eye, center, up) ==
  LET f == Normalize3(<<FSub(center[1], eye[1]), FSub(center[2], eye[2]),
                        FSub(center[3], eye[3])>>)
      s == Normalize3(Cross3(f, up))
      u == Cross3(s, f)
  IN  << <<s[1], u[1], FNeg(f[1]), 0>>,
         <<s[2], u[2], FNeg(f[2]), 0>>,
         <<s[3], u[3], FNeg(f[3]), 0>>,
         <<FNeg(Dot3(s, eye)), FNeg(Dot3(u, eye)), Dot3(f, eye), One>> >>

\* -------------------------------------------------------------------------
\* The OpenGL ES context of a window: the state the GL calls of the two
\* libraries read and write.  Every gl* operator takes the context g and
\* gives the context after the call.
\* -------------------------------------------------------------------------

GL_NO_ERROR == "GL_NO_ERROR"

Black == <<0, 0, 0, One>>

\* A vertex attribute that was never given a format.
NoAttrib ==
  [enabled |-> FALSE, size |-> 0, type |-> "none", normalized |-> FALSE,
   stride |-> 0, offset |-> 0, buffer |-> 0]

\* A colour buffer nothing was rendered to yet.
NoFrame == [color |-> <<>>, points |-> 0, program |-> 0]

\* The context glfwCreateWindow makes: no objects but vertex array 0 (the
\* default vertex array of ES 3), glad's pointers not loaded yet.
NewContext ==
  [loaded |-> FALSE, current |-> FALSE, error |-> GL_NO_ERROR,
   clear_color |-> <<0, 0, 0, 0>>, back |-> NoFrame, front |-> NoFrame,
   array_buffer |-> 0, vertex_array |-> 0, program |-> 0,
   viewport |-> <<0, 0>>, buffers |-> <<>>,
   vaos |-> [a \in {0} |-> [i \in {0, 1} |-> NoAttrib]],
   objects |-> <<>>]

\* The first error since the last glGetError is the one kept.
SetError(g, e) == IF g.error = GL_NO_ERROR THEN [g EXCEPT !.error = e] ELSE g

\* glGetError: gives g.error and clears it.
glGetError(g) == [g EXCEPT !.error = GL_NO_ERROR]

glClearColor(g, r, gr, b, a) == [g EXCEPT !.clear_color = <<r, gr, b, a>>]

\* A glClear that leaves the colour buffer as it is.
glClear_nothing(g) == g

\* glClear(GL_COLOR_BUFFER_BIT | GL_DEPTH_BUFFER_BIT)
glClear(g) ==
  [g EXCEPT !.back = [color |-> g.clear_color, points |-> 0, program |-> 0]]

\* glEnable / glDisable of GL_DEPTH, which is no capability (GL_DEPTH_TEST is).
glEnable_GL_DEPTH(g) == SetError(g, "GL_INVALID_ENUM")

\* glGenBuffers(1, &b): the name it gives is Len(g.buffers) + 1.
glGenBuffers(g) == [g EXCEPT !.buffers = Append(@, [live |-> TRUE, size |-> 0])]

\* glGenVertexArrays(1, &a): the name it gives is the number of arrays so far.
glGenVertexArrays(g) ==
  LET a == Cardinality(DOMAIN g.vaos)
  IN  [g EXCEPT !.vaos = [n \in (DOMAIN g.vaos) \cup {a} |->
                            IF n = a THEN [i \in {0, 1} |-> NoAttrib]
                            ELSE g.vaos[n]]]

glBindBuffer(g, b) == [g EXCEPT !.array_buffer = b]

glBindVertexArray(g, a) == [g EXCEPT !.vertex_array = a]

glEnableVertexAttribArray(g, i) ==
  [g EXCEPT !.vaos[g.vertex_array][i].enabled = TRUE]

glVertexAttribPointer(g, i, size, type, normalized, stride, offset) ==
  [g EXCEPT !.vaos[g.vertex_array][i] =
     [enabled |-> @.enabled, size |-> size, type |-> type,
      normalized |-> normalized, stride |-> stride, offset |-> offset,
      buffer |-> g.array_buffer]]

\* glBufferData(GL_ARRAY_BUFFER, bytes, data, usage): with no buffer bound it
\* is an error and nothing is read from data.
glBufferData(g, bytes) ==
  IF g.array_buffer = 0 THEN SetError(g, "GL_INVALID_OPERATION")
  ELSE [g EXCEPT !.buffers[g.array_buffer].size = bytes]

glDeleteBuffers(g, b) ==
  IF b = 0 THEN g
  ELSE [g EXCEPT !.buffers[b].live = FALSE,
                 !.array_buffer = IF @ = b THEN 0 ELSE @]

glDeleteVertexArrays(g, a) ==
  IF a = 0 THEN g
  ELSE [g EXCEPT !.vaos = [n \in (DOMAIN @) \ {a} |-> @[n]],
                 !.vertex_array = IF @ = a THEN 0 ELSE @]

\* glCreateShader / glCreateProgram: shaders and programs share their names;
\* the name given is Len(g.objects) + 1.
glCreateShader(g, kind) ==
  [g EXCEPT !.objects = Append(@, [kind |-> kind, live |-> TRUE, ok |-> FALSE,
                                   attached |-> {}, mvp |-> MatDiag(0)])]

glCreateProgram(g) == glCreateShader(g, "program")

\* glShaderSource + glCompileShader; ok is what the driver makes of the source.
glCompileShader(g, s, ok) == [g EXCEPT !.objects[s].ok = ok]

glDeleteShader(g, s) == [g EXCEPT !.objects[s].live = FALSE]

glAttachShader(g, p, s) == [g EXCEPT !.objects[p].attached = @ \cup {s}]

glDetachShader(g, p, s) == [g EXCEPT !.objects[p].attached = @ \ {s}]

\* glLinkProgram: a failed link sets the link status, not the GL error.
glLinkProgram(g, p, ok) ==
  [g EXCEPT !.objects[p].ok =
     ok /\ \A s \in g.objects[p].attached : g.objects[s].ok]

glDeleteProgram(g, p) ==
  IF p = 0 THEN g
  ELSE [g EXCEPT !.objects[p].live = FALSE,
                 !.program = IF @ = p THEN 0 ELSE @]

\* glUseProgram: a program that is not linked cannot be made current.
glUseProgram(g, p) ==
  IF p = 0 THEN [g EXCEPT !.program = 0]
  ELSE IF g.objects[p].ok THEN [g EXCEPT !.program = p]
  ELSE SetError(g, "GL_INVALID_OPERATION")

\* glGetUniformLocation(p, "mvp"): -1 unless p is a linked program.
glGetUniformLocation(g, p) ==
  IF p # 0 /\ p \in DOMAIN g.objects /\ g.objects[p].ok THEN 0 ELSE 0 - 1

\* glUniformMatrix4fv(location, 1, GL_FALSE, m): location -1 is ignored.
glUniformMatrix4fv(g, location, m) ==
  IF location = 0 - 1 THEN g
  ELSE IF g.program = 0 THEN SetError(g, "GL_INVALID_OPERATION")
  ELSE [g EXCEPT !.objects[g.program].mvp = m]

\* glDrawArrays(GL_POINTS, 0, count): without a current program nothing
\* defined reaches the frame.
glDrawArrays(g, count) ==
  IF g.program = 0 THEN g
  ELSE [g EXCEPT !.back.points = count, !.back.program = g.program]

glViewport(g, w, h) == [g EXCEPT !.viewport = <<w, h>>]

\* glfwSwapBuffers: the back buffer is displayed; what it holds next is
\* whatever the old front buffer held.
SwapBuffers(g) == [g EXCEPT !.front = g.back, !.back = g.front]

\* -------------------------------------------------------------------------
\* State
\* -------------------------------------------------------------------------

VARIABLES
  lib,          \* the library the program is built on: "datviz" or "pcl"
  glfw_inited,  \* glfwInit has succeeded and glfwTerminate has not run since
  win,          \* the GLFW window (GLFWwindow), created or not
  gl,           \* the GL context of the window
  events,       \* input the user gave that glfwPollEvents has not yet seen
  viewer,       \* the caller's viewer pointer: "none", "null", "live", "destroyed"
  pv,           \* the fields of pcl_viewer_struct
  dv,           \* the fields of datviz's Library and of its members
  crashed,      \* the process has ended abnormally (abort or fault)
  call,         \* the last public call: its name, arguments and result
  draw,         \* what the last public call issued its glDrawArrays with, if it did
  req,          \* the arguments of the latest setter calls on the viewer
  pc,           \* where main() of the example program is
  iter,         \* the calls main() has made in the main-loop iteration under way
  ms,           \* the MajorSystem of the example program
  hist          \* what has happened so far in the run of the example program




vars == <<lib, glfw_inited, win, gl, events, viewer, pv, dv, crashed,
          call, draw, req, pc, iter, ms, hist>>

\* -------------------------------------------------------------------------
\* Inputs
\* -------------------------------------------------------------------------

\* The largest point_count a caller passes to render_points.
MaxPoints == 1

\* The largest number of loggers a caller adds.
MaxLoggers == 1

\* Framebuffer sizes a maximized window comes up with.
FbSizes == {<<1280, 720>>}


\* Colours given to set_background.
Colours == {<<One, 0, 0, One \div 2>>}

Translate == [MatDiag(One) EXCEPT ![4][1] = One]

Scale2 == [MatDiag(One) EXCEPT ![1][1] = 2 * One]

\* float[16] arrays given to the set_*_transform functions.
MatPtrs == {value_ptr(Translate), value_ptr(Scale2)}

\* glm::radians(45.0f)
Radians45 == 785



Titles == {"Example Point Cloud"}

\* -------------------------------------------------------------------------
\* Initial values
\* -------------------------------------------------------------------------

NoWindow ==
  [created |-> FALSE, should_close |-> FALSE, fb |-> <<0, 0>>,
   key_callback |-> "none", title |-> ""]

\* pcl_viewer_struct's member initializers.
pcl_viewer_struct ==
  [vertex_array |-> 0, vertex_buffer |-> 0, program |-> 0,
   mvp_location |-> 0 - 1,
   projection_transform |-> glm_perspective(Radians45, One, 10, 100 * One),
   view_transform |->
     glm_lookAt(<<2 * One, 2 * One, 3 * One>>, <<0, 0, 0>>, <<0, One, 0>>),
   model_transform |-> MatDiag(One)]

\* Library's member initializers, with those of its members
\* (LoggerProxy, CameraController, PointShaderProgram, ShaderProgram,
\* VertexArray); Window's window_ is win.
Library ==
  [loggers |-> <<>>, enabled_ |-> TRUE,
   buffer_ |-> 0, array_ |-> 0, va_is_bound_ |-> FALSE,
   id_ |-> 0, sp_is_bound_ |-> FALSE, mvp_location_ |-> 0 - 1,
   background_color_ |-> Black,
   model_transform_ |-> MatDiag(One),
   view_transform_ |-> MatDiag(One),
   projection_transform_ |-> MatDiag(One)]

NoCall == [op |-> "none", args |-> <<>>, ret |-> 0, logged |-> <<>>]

NoDraw ==
  [issued |-> FALSE, program |-> 0, vertex_array |-> 0, buffer |-> 0,
   count |-> 0, bytes |-> 0, stored |-> 0, color |-> NoAttrib,
   location |-> 0 - 1, mvp |-> MatDiag(0), uniform |-> MatDiag(0)]

\* What the setters were last given, or the initial values.
InitialRequests(l) ==
  IF l = "pcl"
  THEN [background |-> Black,
        model |-> pcl_viewer_struct.model_transform,
        view |-> pcl_viewer_struct.view_transform,
        projection |-> pcl_viewer_struct.projection_transform]
  ELSE [background |-> Library.background_color_,
        model |-> Library.model_transform_,
        view |-> Library.view_transform_,
        projection |-> Library.projection_transform_]

NoMajorSystem == [particles_ |-> 0, velocity_ |-> 0]

NoHistory ==
  [window_failed |-> FALSE, other_calls |-> FALSE, closed |-> FALSE,
   destroys |-> 0]

\* The ghost record of a public call that issues no draw.  logged is the
\* sequence of logger callback invocations made during the call: none, since
\* no function of datviz.cpp calls LoggerProxy::log, info or error
\* (Shader::check_shader writes to std::cerr), and pcl_viewer has no loggers.
Called(op, args, ret) ==
  /\ call' = [op |-> op, args |-> args, ret |-> ret, logged |-> <<>>]
  /\ draw' = NoDraw

\* The ghost record of a public call that issues the draw d.
Drew(op, args, ret, d) ==
  /\ call' = [op |-> op, args |-> args, ret |-> ret, logged |-> <<>>]
  /\ draw' = d

\* The process ends abnormally: a failed assert, or a fault.
Crash(op, args) ==
  /\ crashed' = TRUE
  /\ Called(op, args, "crash")
  /\ UNCHANGED <<glfw_inited, win, gl, events, pv, dv, req>>

\* -------------------------------------------------------------------------
\* datviz (src/datviz.cpp): Window
\* -------------------------------------------------------------------------

\* sizeof(Vertex): 12 bytes of position and 4 of colour.
g_vertex_size == 16

\* Whether glfwCreateWindow can succeed: never without glfwInit.
CreateOutcomes == IF glfw_inited THEN BOOLEAN ELSE {FALSE}

\* Window::get_or_initialize_window on the window and context w; ok is
\* whether glfwCreateWindow succeeds and fb the framebuffer size it comes up
\* with.  The result's win.created is whether a window is returned.
Window_get_or_initialize_window(w, ok, fb) ==
  IF w.win.created THEN w
  ELSE IF ~ok THEN w
  ELSE [win |-> [created |-> TRUE, should_close |-> FALSE, fb |-> fb,
                 key_callback |-> "Window::key_callback", title |-> ""],
        gl |-> glEnable_GL_DEPTH(
                 [NewContext EXCEPT !.loaded = TRUE, !.current = TRUE])]

\* Window::make_context_current
Window_make_context_current(w, ok, fb) ==
  LET w1 == Window_get_or_initialize_window(w, ok, fb)
  IN  IF ~w1.win.created THEN w1
      ELSE [w1 EXCEPT !.gl.current = TRUE]

\* Window::set_title
Window_set_title(w, title, ok, fb) ==
  LET w1 == Window_get_or_initialize_window(w, ok, fb)
  IN  IF ~w1.win.created THEN w1
      ELSE [w1 EXCEPT !.win.title = title]

\* Window::get_framebuffer_size and Window::get_window_size: the size
\* written to *w, *h, which the callers set to 0 beforehand.
Window_size(w1) == IF w1.win.created THEN w1.win.fb ELSE <<0, 0>>

\* Window::handle_key: does nothing with the key.
Window_handle_key(w, key) == w

\* glfwPollEvents on the window w with the pending input evs: the exit
\* button sets the close flag, a key goes to the window's key callback.
PollEvents(w, evs) ==
  LET closed == IF "close" \in evs THEN [w EXCEPT !.should_close = TRUE] ELSE w
  IN  IF "escape" \notin evs THEN closed
      ELSE IF w.key_callback = "Window::key_callback"
           THEN Window_handle_key(closed, "escape")
      ELSE IF w.key_callback = "key_callback"
           THEN [closed EXCEPT !.should_close = TRUE]
      ELSE closed

\* -------------------------------------------------------------------------
\* datviz: VertexArray, Shader, ShaderProgram, PointShaderProgram
\* These take the Library fields d and the context g, and give both.
\* -------------------------------------------------------------------------

\* VertexArray::init
VertexArray_init(d, g) ==
  LET g1 == glGenVertexArrays(glGenBuffers(g))
      b == Len(g1.buffers)
      a == Cardinality(DOMAIN g1.vaos) - 1
      g2 == glBindVertexArray(glBindBuffer(g1, b), a)
      g3 == glEnableVertexAttribArray(glEnableVertexAttribArray(g2, 0), 1)
      g4 == glVertexAttribPointer(g3, 0, 3, "GL_FLOAT", FALSE, 16, 0)
      g5 == glVertexAttribPointer(g4, 1, 4, "GL_UNSIGNED_BYTE", TRUE, 16, 12)
      g6 == glBindBuffer(glBindVertexArray(g5, 0), 0)
  IN  [dv |-> [d EXCEPT !.buffer_ = b, !.array_ = a],
       gl |-> glGetError(g6),
       ret |-> g6.error = GL_NO_ERROR]

\* VertexArray::cleanup
VertexArray_cleanup(d, g) ==
  LET g1 == IF d.buffer_ # 0 THEN glDeleteBuffers(g, d.buffer_) ELSE g
      g2 == IF d.array_ # 0 THEN glDeleteVertexArrays(g1, d.array_) ELSE g1
  IN  [dv |-> [d EXCEPT !.buffer_ = 0, !.array_ = 0], gl |-> g2]

\* VertexArray::buffer_data, with the glGetError that ends it.
VertexArray_buffer_data(g, vertex_count) ==
  glGetError(glBufferData(g, vertex_count * g_vertex_size))

\* Shader::init with Shader::check_shader: the context with the new shader
\* (its name is Len(gl.objects)), and whether it compiled.
Shader_init(g, kind, ok) ==
  LET g1 == glCreateShader(g, kind)
      id == Len(g1.objects)
  IN  [gl |-> glCompileShader(g1, id, ok), id |-> id, ret |-> ok]

\* ShaderProgram::init; vert_ok, frag_ok, link_ok are what the driver makes
\* of the two sources and of the link.  asserts is whether the asserts of
\* ~Shader (id_ == 0) hold when the two local shaders go out of scope.
ShaderProgram_init(d, g, vert_ok, frag_ok, link_ok) ==
  LET v == Shader_init(g, "GL_VERTEX_SHADER", vert_ok)
      f == Shader_init(v.gl, "GL_FRAGMENT_SHADER", frag_ok)
      p1 == glCreateProgram(f.gl)
      id == Len(p1.objects)
      p2 == glAttachShader(glAttachShader(p1, id, v.id), id, f.id)
      p3 == glLinkProgram(p2, id, link_ok)
      p4 == glDetachShader(glDetachShader(p3, id, v.id), id, f.id)
  IN  IF ~v.ret
      THEN [dv |-> d, gl |-> glDeleteShader(v.gl, v.id), ret |-> FALSE,
            asserts |-> TRUE]
      ELSE IF ~f.ret
      THEN [dv |-> d, gl |-> glDeleteShader(glDeleteShader(f.gl, v.id), f.id),
            ret |-> FALSE, asserts |-> TRUE]
      ELSE [dv |-> [d EXCEPT !.id_ = id], gl |-> glGetError(p4),
            ret |-> p4.error = GL_NO_ERROR, asserts |-> FALSE]

\* ShaderProgram::cleanup
ShaderProgram_cleanup(d, g) ==
  IF d.id_ = 0 THEN [dv |-> d, gl |-> g]
  ELSE [dv |-> [d EXCEPT !.id_ = 0], gl |-> glDeleteProgram(g, d.id_)]

\* PointShaderProgram::cleanup
PointShaderProgram_cleanup(d, g) ==
  LET c == ShaderProgram_cleanup(d, g)
  IN  VertexArray_cleanup(c.dv, c.gl)

\* Library::mvp
Library_mvp(d) ==
  MatMul(MatMul(d.projection_transform_, d.view_transform_), d.model_transform_)

\* PointShaderProgram::render_points up to glDrawArrays: VertexArray::bind,
\* ShaderProgram::bind, buffer_data, the uniform.  The asserts on is_bound_
\* hold: bind and unbind alternate.
PointShaderProgram_before_draw(d, g, point_count, mvp) ==
  LET g1 == glBindVertexArray(glBindBuffer(g, d.buffer_), d.array_)
      g2 == glUseProgram(g1, d.id_)
      g3 == VertexArray_buffer_data(g2, point_count)
  IN  glUniformMatrix4fv(g3, d.mvp_location_, mvp)

\* PointShaderProgram::render_points from glDrawArrays on.
PointShaderProgram_draw(g, point_count) ==
  LET g5 == glDrawArrays(g, point_count)
      g6 == glUseProgram(g5, 0)
      g7 == glBindVertexArray(glBindBuffer(g6, 0), 0)
  IN  glGetError(g7)

\* What glDrawArrays is issued with in the context g.
DrawRecord(g, count, bytes, location, mvp) ==
  [issued |-> TRUE, program |-> g.program, vertex_array |-> g.vertex_array,
   buffer |-> g.array_buffer, count |-> count, bytes |-> bytes,
   stored |-> IF g.array_buffer = 0 THEN 0 ELSE g.buffers[g.array_buffer].size,
   color |-> g.vaos[g.vertex_array][1],
   location |-> location, mvp |-> mvp,
   uniform |-> IF g.program = 0 THEN MatDiag(0) ELSE g.objects[g.program].mvp]

\* -------------------------------------------------------------------------
\* datviz: the public API.  Each action is one call on the viewer; ok and fb
\* are what a glfwCreateWindow made by the call would give.
\* -------------------------------------------------------------------------

World == [win |-> win, gl |-> gl]

\* datviz_global_init: glfwInit gives GLFW_TRUE (1) or GLFW_FALSE (0).
datviz_global_init(ok) ==
  LET glfwInit == IF glfw_inited \/ ok THEN 1 ELSE 0
  IN  /\ glfw_inited' = (glfwInit = 1)
      /\ Called("global_init", <<glfwInit>>, IF glfwInit # 0 THEN 0 - 1 ELSE 0)
      /\ UNCHANGED <<win, gl, events, pv, dv, crashed, req>>

\* datviz_global_cleanup: glfwTerminate.
datviz_global_cleanup ==
  /\ glfw_inited' = FALSE
  /\ win' = NoWindow
  /\ gl' = NewContext
  /\ events' = {}
  /\ Called("global_cleanup", <<>>, 0)
  /\ UNCHANGED <<pv, dv, crashed, req>>

\* datviz_create
datviz_create ==
  /\ dv' = Library
  /\ req' = InitialRequests("datviz")
  /\ Called("create", <<>>, "viewer")
  /\ UNCHANGED <<glfw_inited, win, gl, events, pv, crashed>>

\* datviz_destroy on a viewer that is not null: Library::cleanup, then the
\* destructors, of which ~Window destroys the window.
datviz_destroy ==
  LET c == IF win.created
           THEN PointShaderProgram_cleanup(dv, [gl EXCEPT !.current = TRUE])
           ELSE [dv |-> dv, gl |-> gl]
  IN  /\ dv' = c.dv
      /\ win' = NoWindow
      /\ gl' = NewContext
      /\ events' = {}
      /\ Called("destroy", <<>>, 0)
      /\ UNCHANGED <<glfw_inited, pv, crashed, req>>

\* datviz_add_logger
datviz_add_logger(logger_data, callback) ==
  /\ dv' = [dv EXCEPT !.loggers = Append(@, <<logger_data, callback>>)]
  /\ Called("add_logger", <<logger_data, callback>>, 0)
  /\ UNCHANGED <<glfw_inited, win, gl, events, pv, crashed, req>>


\* datviz_set_window_title
datviz_set_window_title(title, ok, fb) ==
  LET w1 == Window_set_title(World, title, ok, fb)
  IN  /\ win' = w1.win
      /\ gl' = w1.gl
      /\ Called("set_window_title", <<title>>, 0)
      /\ UNCHANGED <<glfw_inited, events, pv, dv, crashed, req>>


\* datviz_set_background
datviz_set_background(r, g, b, a) ==
  /\ dv' = [dv EXCEPT !.background_color_ = <<r, g, b, a>>]
  /\ req' = [req EXCEPT !.background = <<r, g, b, a>>]
  /\ Called("set_background", <<r, g, b, a>>, 0)
  /\ UNCHANGED <<glfw_inited, win, gl, events, pv, crashed>>

\* datviz_set_model_transform
datviz_set_model_transform(model_transform) ==
  /\ dv' = [dv EXCEPT !.model_transform_ = make_mat4x4(model_transform)]
  /\ req' = [req EXCEPT !.model = make_mat4x4(model_transform)]
  /\ Called("set_model_transform", model_transform, 0)
  /\ UNCHANGED <<glfw_inited, win, gl, events, pv, crashed>>

\* datviz_set_view_transform
datviz_set_view_transform(view_transform) ==
  /\ dv' = [dv EXCEPT !.view_transform_ = make_mat4x4(view_transform)]
  /\ req' = [req EXCEPT !.view = make_mat4x4(view_transform)]
  /\ Called("set_view_transform", view_transform, 0)
  /\ UNCHANGED <<glfw_inited, win, gl, events, pv, crashed>>


\* datviz_set_projection_transform
datviz_set_projection_transform(projection_transform) ==
  /\ dv' = [dv EXCEPT
              !.projection_transform_ = make_mat4x4(projection_transform)]
  /\ req' = [req EXCEPT !.projection = make_mat4x4(projection_transform)]
  /\ Called("set_projection_transform", projection_transform, 0)
  /\ UNCHANGED <<glfw_inited, win, gl, events, pv, crashed>>


\* datviz_set_perspective
datviz_set_perspective(fovy, near, far, ok, fb) ==
  LET w1 == Window_get_or_initialize_window(World, ok, fb)
      wh == Window_size(w1)
      projection ==
        glm_perspective(FDiv(FloatOfInt(wh[1]), FloatOfInt(wh[2])),
                        fovy, near, far)
  IN  /\ win' = w1.win
      /\ gl' = w1.gl
      /\ dv' = [dv EXCEPT
                  !.projection_transform_ = make_mat4x4(value_ptr(projection))]
      /\ req' = [req EXCEPT !.projection = projection]
      /\ Called("set_perspective", <<fovy, near, far>>, 0)
      /\ UNCHANGED <<glfw_inited, events, pv, crashed>>

\* Library::begin_frame on the window and context w1 that
\* Window::make_context_current gave, a window being there.
Library_begin_frame(d, w1) ==
  LET bg == d.background_color_
      g1 == glClear(glClearColor(w1.gl, bg[1], bg[2], bg[3], bg[4]))
  IN  glViewport(g1, Window_size(w1)[1], Window_size(w1)[2])

\* datviz_begin_frame
datviz_begin_frame(ok, fb) ==
  LET w1 == Window_make_context_current(World, ok, fb)
  IN  /\ win' = w1.win
      /\ gl' = IF w1.win.created THEN glGetError(Library_begin_frame(dv, w1))
               ELSE w1.gl
      /\ Called("begin_frame", <<>>,
                w1.win.created
                  /\ Library_begin_frame(dv, w1).error = GL_NO_ERROR)
      /\ UNCHANGED <<glfw_inited, events, pv, dv, crashed, req>>

\* datviz_render_points.  Without a window no GL function is loaded, and
\* the call through glad's null pointer is undefined: the process faults
\* (Crash) or goes on with nothing done.
datviz_render_points(count) ==
  LET g4 == PointShaderProgram_before_draw(dv, gl, count, Library_mvp(dv))
  IN  IF gl.loaded
      THEN /\ gl' = PointShaderProgram_draw(g4, count)
           /\ Drew("render_points", <<count>>, 0,
                   DrawRecord(g4, count, count * g_vertex_size,
                              dv.mvp_location_, Library_mvp(dv)))
           /\ UNCHANGED <<glfw_inited, win, events, pv, dv, crashed, req>>
      ELSE \/ Crash("render_points", <<count>>)
           \/ /\ Called("render_points", <<count>>, "undefined")
              /\ UNCHANGED <<glfw_inited, win, gl, events, pv, dv, crashed, req>>

\* datviz_end_frame: Window::swap_buffers.  Without a window its assert
\* fails, or (NDEBUG) glfwSwapBuffers(nullptr) is undefined.
datviz_end_frame ==
  IF win.created
  THEN /\ gl' = SwapBuffers(gl)
       /\ Called("end_frame", <<>>, 0)
       /\ UNCHANGED <<glfw_inited, win, events, pv, dv, crashed, req>>
  ELSE \/ Crash("end_frame", <<>>)
       \/ /\ Called("end_frame", <<>>, "undefined")
          /\ UNCHANGED <<glfw_inited, win, gl, events, pv, dv, crashed, req>>

\* datviz_poll_input: glfwPollEvents, which does nothing without glfwInit.
\* The call is recorded with the input it dispatched to the window.
datviz_poll_input ==
  /\ win' = IF glfw_inited /\ win.created THEN PollEvents(win, events) ELSE win
  /\ events' = {}
  /\ Called("poll_input", <<>>,
            IF glfw_inited /\ win.created THEN events ELSE {})
  /\ UNCHANGED <<glfw_inited, gl, pv, dv, crashed, req>>

\* datviz_should_close: Window::should_close, recorded with the window it
\* hands to glfwWindowShouldClose.  With window_ null,
\* glfwWindowShouldClose(nullptr) is undefined: the process faults, or the
\* call gives either answer.
datviz_should_close ==
  IF win.created
  THEN /\ Called("should_close", <<"window_">>,
                 IF win.should_close THEN 1 ELSE 0)
       /\ UNCHANGED <<glfw_inited, win, gl, events, pv, dv, crashed, req>>
  ELSE \/ Crash("should_close", <<"nullptr">>)
       \/ /\ \E r \in {0, 1} : Called("should_close", <<"nullptr">>, r)
          /\ UNCHANGED <<glfw_inited, win, gl, events, pv, dv, crashed, req>>

\* -------------------------------------------------------------------------
\* pcl_viewer (src/point_cloud_viewer.cpp): the public API
\* -------------------------------------------------------------------------

\* sizeof(float)
SizeofFloat == 4

\* check_shader: the shader's GL_COMPILE_STATUS.
check_shader(g, shader) == g.objects[shader].ok

\* pcl_viewer_create from glfwMakeContextCurrent to the glBindVertexArray(0)
\* that ends the vertex array's setup: the context of the new window.
pcl_create_vertex_array ==
  LET g0 == [NewContext EXCEPT !.loaded = TRUE, !.current = TRUE]
      g1 == glEnable_GL_DEPTH(glClearColor(g0, 0, 0, 0, One))
      g2 == glGenBuffers(glGenVertexArrays(g1))
      a == Cardinality(DOMAIN g2.vaos) - 1
      b == Len(g2.buffers)
      g3 == glBindBuffer(glBindVertexArray(g2, a), b)
      g4 == glEnableVertexAttribArray(glEnableVertexAttribArray(g3, 0), 1)
      g5 == glVertexAttribPointer(g4, 0, 3, "GL_FLOAT", FALSE,
                                  SizeofFloat * 6, 0)
      g6 == glVertexAttribPointer(g5, 1, 3, "GL_FLOAT", FALSE,
                                  SizeofFloat * 6, SizeofFloat * 3)
  IN  [gl |-> glBindVertexArray(glBindBuffer(g6, 0), 0),
       vertex_array |-> a, vertex_buffer |-> b]

\* pcl_viewer_create from glCreateShader to the two glCompileShader.
pcl_create_shaders(g, vert_ok, frag_ok) ==
  LET g1 == glCreateShader(g, "GL_VERTEX_SHADER")
      vert_shader == Len(g1.objects)
      g2 == glCreateShader(g1, "GL_FRAGMENT_SHADER")
      frag_shader == Len(g2.objects)
  IN  [gl |-> glCompileShader(glCompileShader(g2, vert_shader, vert_ok),
                              frag_shader, frag_ok),
       vert_shader |-> vert_shader, frag_shader |-> frag_shader]

\* pcl_viewer_create from glCreateProgram to the two glDeleteShader.
pcl_create_program(g, vert_shader, frag_shader, link_ok) ==
  LET g1 == glCreateProgram(g)
      program == Len(g1.objects)
      g2 == glAttachShader(glAttachShader(g1, program, vert_shader),
                           program, frag_shader)
      g3 == glLinkProgram(g2, program, link_ok)
      g4 == glDetachShader(glDetachShader(g3, program, frag_shader),
                           program, vert_shader)
  IN  [gl |-> glDeleteShader(glDeleteShader(g4, vert_shader), frag_shader),
       program |-> program]


\* pcl_viewer_create; init_ok, win_ok, vert_ok, frag_ok, link_ok are what
\* glfwInit, glfwCreateWindow and the driver give, fb the framebuffer size
\* of the window.
pcl_viewer_create(title, init_ok, win_ok, fb, vert_ok, frag_ok, link_ok) ==
  LET inited == glfw_inited \/ init_ok
      va == pcl_create_vertex_array
      sh == pcl_create_shaders(va.gl, vert_ok, frag_ok)
      shaders_ok == check_shader(sh.gl, sh.vert_shader)
                      /\ check_shader(sh.gl, sh.frag_shader)
      pr == pcl_create_program(sh.gl, sh.vert_shader, sh.frag_shader, link_ok)
      link_status == pr.gl.objects[pr.program].ok
      g9 == glUseProgram(pr.gl, pr.program)
      ret == IF ~inited THEN "null"
             ELSE IF ~win_ok THEN "null"
             ELSE IF ~shaders_ok THEN "null"
             ELSE IF ~link_status THEN "null"
             ELSE "viewer"
  IN  /\ glfw_inited' = inited
      /\ Called("create", <<title, inited, win_ok, vert_ok, frag_ok, link_ok>>,
                ret)
      /\ req' = InitialRequests("pcl")
      /\ events' = {}
      /\ UNCHANGED <<dv, crashed>>
      /\ IF ret = "viewer"
         THEN /\ win' = [created |-> TRUE, should_close |-> FALSE, fb |-> fb,
                         key_callback |-> "key_callback", title |-> title]
              /\ gl' = g9
              /\ pv' = [pcl_viewer_struct EXCEPT
                          !.vertex_array = va.vertex_array,
                          !.vertex_buffer = va.vertex_buffer,
                          !.program = pr.program,
                          !.mvp_location = glGetUniformLocation(g9, pr.program)]
         ELSE \* glfwDestroyWindow (if there was a window) and delete viewer
              /\ win' = NoWindow
              /\ gl' = NewContext
              /\ pv' = pcl_viewer_struct

\* pcl_viewer_destroy on a viewer that is not null: the buffer and the
\* vertex array are deleted, then the window goes with its context, the
\* viewer is deleted and glfwTerminate runs.
pcl_viewer_destroy ==
  /\ win' = NoWindow
  /\ gl' = NewContext
  /\ glfw_inited' = FALSE
  /\ events' = {}
  /\ Called("destroy", <<>>, 0)
  /\ UNCHANGED <<pv, dv, crashed, req>>


\* pcl_viewer_set_background
pcl_viewer_set_background(r, g, b) ==
  /\ gl' = glClearColor([gl EXCEPT !.current = TRUE], r, g, b, One)
  /\ req' = [req EXCEPT !.background = <<r, g, b, One>>]
  /\ Called("set_background", <<r, g, b>>, 0)
  /\ UNCHANGED <<glfw_inited, win, events, pv, dv, crashed>>

\* pcl_viewer_set_model_transform
pcl_viewer_set_model_transform(model_transform) ==
  /\ pv' = [pv EXCEPT !.model_transform = make_mat4x4(model_transform)]
  /\ req' = [req EXCEPT !.model = make_mat4x4(model_transform)]
  /\ Called("set_model_transform", model_transform, 0)
  /\ UNCHANGED <<glfw_inited, win, gl, events, dv, crashed>>

\* pcl_viewer_set_view_transform
pcl_viewer_set_view_transform(view_transform) ==
  /\ pv' = [pv EXCEPT !.view_transform = make_mat4x4(view_transform)]
  /\ req' = [req EXCEPT !.view = make_mat4x4(view_transform)]
  /\ Called("set_view_transform", view_transform, 0)
  /\ UNCHANGED <<glfw_inited, win, gl, events, dv, crashed>>


\* pcl_viewer_set_projection_transform
pcl_viewer_set_projection_transform(projection_transform) ==
  /\ pv' = [pv EXCEPT
              !.projection_transform = make_mat4x4(projection_transform)]
  /\ req' = [req EXCEPT !.projection = make_mat4x4(projection_transform)]
  /\ Called("set_projection_transform", projection_transform, 0)
  /\ UNCHANGED <<glfw_inited, win, gl, events, dv, crashed>>


\* pcl_viewer_set_perspective
pcl_viewer_set_perspective(fovy, near, far) ==
  LET projection ==
        glm_perspective(FDiv(FloatOfInt(win.fb[1]), FloatOfInt(win.fb[2])),
                        fovy, near, far)
  IN
  /\ pv' = [pv EXCEPT !.projection_transform = projection]
  /\ req' = [req EXCEPT !.projection = projection]
  /\ Called("set_perspective", <<fovy, near, far>>, 0)
  /\ UNCHANGED <<glfw_inited, win, gl, events, dv, crashed>>

\* pcl_viewer_begin_frame
pcl_viewer_begin_frame ==
  /\ gl' = glViewport(glClear([gl EXCEPT !.current = TRUE]),
                      win.fb[1], win.fb[2])
  /\ Called("begin_frame", <<>>, 0)
  /\ UNCHANGED <<glfw_inited, win, events, pv, dv, crashed, req>>

\* The three transforms multiplied in the order model, view, projection.
pcl_mvp_reversed(v) ==
  MatMul(MatMul(v.model_transform, v.view_transform), v.projection_transform)

\* pcl_viewer_struct::mvp
pcl_mvp(v) ==
  MatMul(MatMul(v.projection_transform, v.view_transform), v.model_transform)

\* The size in bytes pcl_viewer_render_points gives glBufferData.
pcl_buffer_bytes(count) == count * SizeofFloat * 6

\* pcl_viewer_render_points up to glDrawArrays.
pcl_before_draw(v, g, count) ==
  LET g1 == glBufferData(glBindBuffer(g, v.vertex_buffer),
                         pcl_buffer_bytes(count))
      g2 == glUseProgram(glBindVertexArray(g1, v.vertex_array), v.program)
  IN  glUniformMatrix4fv(g2, v.mvp_location, pcl_mvp(v))

\* pcl_viewer_render_points
pcl_viewer_render_points(count) ==
  LET g4 == pcl_before_draw(pv, gl, count)
  IN  /\ gl' = glBindBuffer(glBindVertexArray(glDrawArrays(g4, count), 0), 0)
      /\ Drew("render_points", <<count>>, 0,
              DrawRecord(g4, count, pcl_buffer_bytes(count),
                         pv.mvp_location, pcl_mvp(pv)))
      /\ UNCHANGED <<glfw_inited, win, events, pv, dv, crashed, req>>

\* pcl_viewer_end_frame
pcl_viewer_end_frame ==
  /\ gl' = SwapBuffers(gl)
  /\ Called("end_frame", <<>>, 0)
  /\ UNCHANGED <<glfw_inited, win, events, pv, dv, crashed, req>>

\* pcl_viewer_poll_input, recorded with the input it dispatched.
pcl_viewer_poll_input ==
  /\ win' = PollEvents(win, events)
  /\ events' = {}
  /\ Called("poll_input", <<>>, events)
  /\ UNCHANGED <<glfw_inited, gl, pv, dv, crashed, req>>

\* pcl_viewer_should_close on a viewer that is not null.
pcl_viewer_should_close ==
  /\ Called("should_close", <<"window">>, IF win.should_close THEN 1 ELSE 0)
  /\ UNCHANGED <<glfw_inited, win, gl, events, pv, dv, crashed, req>>

\* -------------------------------------------------------------------------
\* Spec: a program that makes one viewer and calls the public API on it in
\* any order, while the user clicks the exit button or presses Escape.
\* -------------------------------------------------------------------------

Init ==
  /\ lib \in {"datviz", "pcl"}
  /\ glfw_inited = FALSE
  /\ win = NoWindow
  /\ gl = NewContext
  /\ events = {}
  /\ viewer = "none"
  /\ pv = pcl_viewer_struct
  /\ dv = Library
  /\ crashed = FALSE
  /\ call = NoCall
  /\ draw = NoDraw
  /\ req = InitialRequests(lib)
  /\ pc = "api"
  /\ iter = <<>>
  /\ ms = NoMajorSystem
  /\ hist = NoHistory

Live == viewer = "live" /\ ~crashed

Same == UNCHANGED <<lib, viewer, pc, iter, ms, hist>>

GlobalInit ==
  /\ lib = "datviz" /\ viewer = "none" /\ ~crashed
  /\ \E ok \in BOOLEAN : datviz_global_init(ok)
  /\ Same

GlobalCleanup ==
  /\ lib = "datviz" /\ viewer = "destroyed" /\ glfw_inited /\ ~crashed
  /\ datviz_global_cleanup
  /\ Same

Create ==
  /\ viewer \in {"none", "null"} /\ ~crashed
  /\ IF lib = "datviz" THEN datviz_create
     ELSE \E title \in Titles, fb \in FbSizes,
             init_ok, win_ok, vert_ok, frag_ok, link_ok \in BOOLEAN :
            pcl_viewer_create(title, init_ok, win_ok, fb,
                              vert_ok, frag_ok, link_ok)
  /\ viewer' = IF call'.ret = "viewer" THEN "live" ELSE "null"
  /\ UNCHANGED <<lib, pc, iter, ms, hist>>

Destroy ==
  /\ Live
  /\ IF lib = "datviz" THEN datviz_destroy ELSE pcl_viewer_destroy
  /\ viewer' = "destroyed"
  /\ UNCHANGED <<lib, pc, iter, ms, hist>>

AddLogger ==
  /\ Live /\ lib = "datviz" /\ Len(dv.loggers) < MaxLoggers
  /\ datviz_add_logger(0, "log_callback")
  /\ Same


SetWindowTitle ==
  /\ Live /\ lib = "datviz"
  /\ \E title \in Titles, ok \in CreateOutcomes, fb \in FbSizes :
       datviz_set_window_title(title, ok, fb)
  /\ Same


SetBackground ==
  /\ Live
  /\ \E c \in Colours :
       IF lib = "datviz" THEN datviz_set_background(c[1], c[2], c[3], c[4])
       ELSE pcl_viewer_set_background(c[1], c[2], c[3])
  /\ Same

SetModelTransform ==
  /\ Live
  /\ \E m \in MatPtrs :
       IF lib = "datviz" THEN datviz_set_model_transform(m)
       ELSE pcl_viewer_set_model_transform(m)
  /\ Same

SetViewTransform ==
  /\ Live
  /\ \E m \in MatPtrs :
       IF lib = "datviz" THEN datviz_set_view_transform(m)
       ELSE pcl_viewer_set_view_transform(m)
  /\ Same


SetProjectionTransform ==
  /\ Live
  /\ \E m \in MatPtrs :
       IF lib = "datviz" THEN datviz_set_projection_transform(m)
       ELSE pcl_viewer_set_projection_transform(m)
  /\ Same

SetPerspective ==
  /\ Live
  /\ \E a \in {<<Radians45, 10, 10 * One>>} :
       IF lib = "datviz"
       THEN \E ok \in CreateOutcomes, fb \in FbSizes :
              datviz_set_perspective(a[1], a[2], a[3], ok, fb)
       ELSE pcl_viewer_set_perspective(a[1], a[2], a[3])
  /\ Same

BeginFrame ==
  /\ Live
  /\ IF lib = "datviz"
     THEN \E ok \in CreateOutcomes, fb \in FbSizes : datviz_begin_frame(ok, fb)
     ELSE pcl_viewer_begin_frame
  /\ Same

RenderPoints ==
  /\ Live
  /\ \E count \in 0..MaxPoints :
       IF lib = "datviz" THEN datviz_render_points(count)
       ELSE pcl_viewer_render_points(count)
  /\ Same

EndFrame ==
  /\ Live
  /\ IF lib = "datviz" THEN datviz_end_frame ELSE pcl_viewer_end_frame
  /\ Same

PollInput ==
  /\ Live
  /\ IF lib = "datviz" THEN datviz_poll_input ELSE pcl_viewer_poll_input
  /\ Same

ShouldClose ==
  /\ Live
  /\ IF lib = "datviz" THEN datviz_should_close ELSE pcl_viewer_should_close
  /\ Same

\* The user clicks the window's exit button.
UserClicksExit ==
  /\ win.created /\ ~crashed /\ "close" \notin events
  /\ events' = events \cup {"close"}
  /\ UNCHANGED <<lib, glfw_inited, win, gl, viewer, pv, dv, crashed,
                 call, draw, req, pc, iter, ms, hist>>

\* The user presses the Escape key in the window.
UserPressesEscape ==
  /\ win.created /\ ~crashed /\ "escape" \notin events
  /\ events' = events \cup {"escape"}
  /\ UNCHANGED <<lib, glfw_inited, win, gl, viewer, pv, dv, crashed,
                 call, draw, req, pc, iter, ms, hist>>

Next ==
  \/ GlobalInit
  \/ GlobalCleanup
  \/ Create
  \/ Destroy
  \/ SetBackground
  \/ BeginFrame
  \/ RenderPoints
  \/ EndFrame
  \/ PollInput
  \/ ShouldClose
  \/ UserClicksExit
  \/ UserPressesEscape

Spec == Init /\ [][Next]_vars

\* -------------------------------------------------------------------------
\* SetupSpec: a program that makes one viewer, configures it (loggers,
\* title, camera controls, the three transforms) and renders points.
\* -------------------------------------------------------------------------

SetupNext ==
  \/ GlobalInit
  \/ GlobalCleanup
  \/ Create
  \/ Destroy
  \/ AddLogger
  \/ SetWindowTitle
  \/ SetModelTransform
  \/ SetViewTransform
  \/ SetProjectionTransform
  \/ SetPerspective
  \/ RenderPoints

SetupSpec == Init /\ [][SetupNext]_vars

\* -------------------------------------------------------------------------
\* MainSpec: the example programs, main() of src/example/main.cpp on
\* datviz and main() of src/point_cloud_viewer_test.cpp on pcl_viewer, one
\* statement of main() per step, while the user clicks the exit button or
\* presses Escape.
\* -------------------------------------------------------------------------



\* point_count of main(): 2000 in src/example/main.cpp, 200 in
\* src/point_cloud_viewer_test.cpp.
point_count(l) == IF l = "datviz" THEN 2000 ELSE 200

\* A main loop that steps the integrator once in both programs.
LoopSteps_once(l) == 1

\* The number of major_system.step calls of one iteration of the main loop.
LoopSteps(l) == IF l = "datviz" THEN 1 ELSE 10

\* MajorSystem's constructor: the sizes of its two vectors.
MajorSystem(l, size) ==
  [particles_ |-> IF l = "datviz" THEN size ELSE size * 6, velocity_ |-> size]

\* MajorSystem::size
MajorSystem_size(m) == m.particles_ \div 6

\* MajorSystem::step: the sizes of the two vectors it moves into place.
MajorSystem_step(l, m) ==
  LET particle_count == MajorSystem_size(m)
  IN  [particles_ |-> IF l = "datviz" THEN particle_count
                      ELSE particle_count * 6,
       velocity_ |-> particle_count]

\* The statement main() goes to: next, unless the process has ended.
Goto(next) == pc' = IF crashed' THEN "crashed" ELSE next

\* A glfwCreateWindow that the call makes gives no window.
NoWindowFrom(ok) == ~win.created /\ ~ok

\* The history after a viewer function other than create was called;
\* failed is whether a window could not be made in the call.
Noted(failed) ==
  hist' = [hist EXCEPT !.other_calls = TRUE,
                       !.window_failed = @ \/ failed]

MainInit ==
  /\ lib \in {"datviz", "pcl"}
  /\ glfw_inited = FALSE
  /\ win = NoWindow
  /\ gl = NewContext
  /\ events = {}
  /\ viewer = "none"
  /\ pv = pcl_viewer_struct
  /\ dv = Library
  /\ crashed = FALSE
  /\ call = NoCall
  /\ draw = NoDraw
  /\ req = InitialRequests(lib)
  /\ pc = IF lib = "datviz" THEN "global_init" ELSE "construct"
  /\ iter = <<>>
  /\ ms = NoMajorSystem
  /\ hist = NoHistory

MainGlobalInit ==
  /\ pc = "global_init"
  /\ \E ok \in BOOLEAN : datviz_global_init(ok)
  /\ Goto("construct")
  /\ UNCHANGED <<lib, viewer, iter, ms, hist>>

MainConstruct ==
  /\ pc = "construct"
  /\ ms' = MajorSystem(lib, point_count(lib))
  /\ pc' = "create"
  /\ UNCHANGED <<lib, glfw_inited, win, gl, events, viewer, pv, dv, crashed,
                 call, draw, req, iter, hist>>

MainCreate ==
  /\ pc = "create"
  /\ IF lib = "datviz"
     THEN /\ datviz_create
          /\ pc' = "add_logger"
          /\ hist' = hist
     ELSE /\ \E title \in Titles, fb \in FbSizes,
                init_ok, win_ok, vert_ok, frag_ok, link_ok \in BOOLEAN :
               /\ pcl_viewer_create(title, init_ok, win_ok, fb,
                                    vert_ok, frag_ok, link_ok)
               /\ hist' = [hist EXCEPT
                             !.window_failed = ~call'.args[2] \/ ~win_ok]
          /\ pc' = "check"
  /\ viewer' = IF call'.ret = "viewer" THEN "live" ELSE "null"
  /\ UNCHANGED <<lib, iter, ms>>

\* datviz_add_logger asserts that the viewer is not null.
MainAddLogger ==
  /\ pc = "add_logger"
  /\ IF viewer = "live" THEN datviz_add_logger(0, "log_callback")
     ELSE Crash("add_logger", <<>>)
  /\ Goto("set_window_title")
  /\ Noted(FALSE)
  /\ UNCHANGED <<lib, viewer, iter, ms>>

MainSetWindowTitle ==
  /\ pc = "set_window_title"
  /\ \E title \in Titles, ok \in CreateOutcomes, fb \in FbSizes :
       /\ IF viewer = "live" THEN datviz_set_window_title(title, ok, fb)
          ELSE Crash("set_window_title", <<>>)
       /\ Noted(viewer = "live" /\ NoWindowFrom(ok))
  /\ Goto("check")
  /\ UNCHANGED <<lib, viewer, iter, ms>>

\* if (!viewer) { print the failure; return EXIT_FAILURE; }
MainCheck ==
  /\ pc = "check"
  /\ pc' = IF viewer = "null" THEN "exit_failure" ELSE "set_perspective"
  /\ UNCHANGED <<lib, glfw_inited, win, gl, events, viewer, pv, dv, crashed,
                 call, draw, req, iter, ms, hist>>

MainSetPerspective ==
  /\ pc = "set_perspective"
  /\ IF lib = "datviz"
     THEN \E ok \in CreateOutcomes, fb \in FbSizes :
            /\ datviz_set_perspective(Radians45, 10, 10 * One, ok, fb)
            /\ Noted(NoWindowFrom(ok))
     ELSE /\ pcl_viewer_set_perspective(Radians45, 10, 10 * One)
          /\ Noted(FALSE)
  /\ Goto("should_close")
  /\ UNCHANGED <<lib, viewer, iter, ms>>

\* while (!should_close(viewer))
MainShouldClose ==
  /\ pc = "should_close"
  /\ IF lib = "datviz" THEN datviz_should_close ELSE pcl_viewer_should_close
  /\ Goto(IF call'.ret = 0 THEN "begin_frame" ELSE "destroy")
  /\ iter' = IF crashed' \/ call'.ret # 0 THEN iter ELSE <<>>
  /\ hist' = [hist EXCEPT !.other_calls = TRUE,
                          !.closed = ~crashed' /\ call'.ret # 0]
  /\ UNCHANGED <<lib, viewer, ms>>

MainBeginFrame ==
  /\ pc = "begin_frame"
  /\ IF lib = "datviz"
     THEN \E ok \in CreateOutcomes, fb \in FbSizes :
            /\ datviz_begin_frame(ok, fb)
            /\ Noted(NoWindowFrom(ok))
     ELSE /\ pcl_viewer_begin_frame
          /\ Noted(FALSE)
  /\ Goto("render_points")
  /\ iter' = Append(iter, "begin_frame")
  /\ UNCHANGED <<lib, viewer, ms>>

MainRenderPoints ==
  /\ pc = "render_points"
  /\ IF lib = "datviz" THEN datviz_render_points(point_count(lib))
     ELSE pcl_viewer_render_points(point_count(lib))
  /\ Goto("end_frame")
  /\ iter' = Append(iter, "render_points")
  /\ Noted(FALSE)
  /\ UNCHANGED <<lib, viewer, ms>>

MainEndFrame ==
  /\ pc = "end_frame"
  /\ IF lib = "datviz" THEN datviz_end_frame ELSE pcl_viewer_end_frame
  /\ Goto("poll_input")
  /\ iter' = Append(iter, "end_frame")
  /\ Noted(FALSE)
  /\ UNCHANGED <<lib, viewer, ms>>

MainPollInput ==
  /\ pc = "poll_input"
  /\ IF lib = "datviz" THEN datviz_poll_input ELSE pcl_viewer_poll_input
  /\ Goto("step")
  /\ iter' = Append(iter, "poll_input")
  /\ Noted(FALSE)
  /\ UNCHANGED <<lib, viewer, ms>>

\* major_system.step(...), LoopSteps(lib) times an iteration.
MainStep ==
  /\ pc = "step"
  /\ ms' = MajorSystem_step(lib, ms)
  /\ iter' = Append(iter, "step")
  /\ pc' = IF Len(iter') - 4 >= LoopSteps(lib) THEN "should_close" ELSE "step"
  /\ UNCHANGED <<lib, glfw_inited, win, gl, events, viewer, pv, dv, crashed,
                 call, draw, req, hist>>

MainDestroy ==
  /\ pc = "destroy"
  /\ IF lib = "datviz" THEN datviz_destroy ELSE pcl_viewer_destroy
  /\ viewer' = "destroyed"
  /\ hist' = [hist EXCEPT !.destroys = @ + 1]
  /\ Goto(IF lib = "datviz" THEN "global_cleanup" ELSE "exit_success")
  /\ UNCHANGED <<lib, iter, ms>>

MainGlobalCleanup ==
  /\ pc = "global_cleanup"
  /\ datviz_global_cleanup
  /\ Goto("exit_success")
  /\ UNCHANGED <<lib, viewer, iter, ms, hist>>

MainNext ==
  \/ MainGlobalInit
  \/ MainConstruct
  \/ MainCreate
  \/ MainAddLogger
  \/ MainSetWindowTitle
  \/ MainCheck
  \/ MainSetPerspective
  \/ MainShouldClose
  \/ MainBeginFrame
  \/ MainRenderPoints
  \/ MainEndFrame
  \/ MainPollInput
  \/ MainStep
  \/ MainDestroy
  \/ MainGlobalCleanup
  \/ UserClicksExit
  \/ UserPressesEscape

MainSpec == MainInit /\ [][MainNext]_vars

\* -------------------------------------------------------------------------
\* ShaderSpec: datviz's PointShaderProgram and VertexArray taken by
\* themselves.  No function of datviz.cpp calls their init; here a caller
\* does, on the Library's members, once the window and its context exist.
\* -------------------------------------------------------------------------

\* The largest number of shaders and programs made in one context.
MaxObjects == 6

\* PointShaderProgram::init, recorded as the ShaderProgram::init it makes.
\* When the two local Shader objects go out of scope with their id_ still
\* set, ~Shader's assert fails (Crash) or is compiled out.
PointShaderProgram_init(vert_ok, frag_ok, link_ok) ==
  LET r == ShaderProgram_init(dv, gl, vert_ok, frag_ok, link_ok)
      location == glGetUniformLocation(r.gl, r.dv.id_)
  IN  \/ /\ ~r.asserts
         /\ Crash("ShaderProgram::init", <<vert_ok, frag_ok, link_ok>>)
      \/ /\ gl' = r.gl
         /\ dv' = IF r.ret THEN [r.dv EXCEPT !.mvp_location_ = location]
                  ELSE r.dv
         /\ Called("ShaderProgram::init", <<vert_ok, frag_ok, link_ok>>, r.ret)
         /\ UNCHANGED <<glfw_inited, win, events, pv, crashed, req>>


ShaderProgramInit ==
  /\ Live /\ lib = "datviz" /\ gl.loaded /\ dv.id_ = 0
  /\ Len(gl.objects) + 3 <= MaxObjects
  /\ \E vert_ok, frag_ok, link_ok \in BOOLEAN :
       PointShaderProgram_init(vert_ok, frag_ok, link_ok)
  /\ Same

\* A call of VertexArray::init on the Library's vertex array.
VertexArrayInit ==
  /\ Live /\ lib = "datviz" /\ gl.loaded /\ dv.buffer_ = 0
  /\ gl' = VertexArray_init(dv, gl).gl
  /\ dv' = VertexArray_init(dv, gl).dv
  /\ Called("VertexArray::init", <<>>, VertexArray_init(dv, gl).ret)
  /\ UNCHANGED <<glfw_inited, win, events, pv, crashed, req>>
  /\ Same

ShaderNext ==
  \/ GlobalInit
  \/ Create
  \/ Destroy
  \/ BeginFrame
  \/ ShaderProgramInit
  \/ VertexArrayInit
  \/ RenderPoints

ShaderSpec == Init /\ [][ShaderNext]_vars

\* -------------------------------------------------------------------------
\* StepSpec: MajorSystem::step on the points themselves.  A coordinate is
\* held in two parts: pos, in thousandths, as the constructor drew it, and
\* fine, what the steps have added to it, in units of 1.0e-12 (a thousandth
\* of gravity = 1.0e-9, the factor of accel = force * gravity).  Velocities
\* and accelerations are in the same fine units, forces in thousandths.
\* The forces are taken from pos: what fine adds to a distance is below
\* their resolution.
\* -------------------------------------------------------------------------

\* The largest size given to MajorSystem's constructor.
MaxParticles == 12

\* The largest number of step calls made on one MajorSystem.
MaxSteps == 2

\* smooth = 1.0e-3, the default argument of step.
smooth == 1

\* Positions pos_dist(rng) can draw in [-1, 1]^3; the constructor takes
\* consecutive ones.  Ring[1] and Ring[2], and Ring[7] and Ring[8], are
\* 0.03 apart (a squared distance of 0.0009, below smooth).
Ring ==
  << <<0, 0, 0>>, <<30, 0, 0>>, <<One, 0, 0>>, <<0, One, 0>>,
     <<0, 0, 0 - One>>, <<0 - 500, 500, 0>>, <<500, 500, 500>>,
     <<500, 530, 500>>, <<0 - One, 0 - One, 0>>, <<0, 0 - 500, 250>>,
     <<250, 0, 0 - 750>>, <<0 - 750, 250, One>> >>

\* glm::dot(delta, delta) of delta = b_pos - a_pos, exactly, in millionths.
distance_squared(a_pos, b_pos) ==
  LET delta == [k \in 1..3 |-> b_pos[k] - a_pos[k]]
  IN  (delta[1] * delta[1]) + (delta[2] * delta[2]) + (delta[3] * delta[3])

\* dir * (1 / (distance_squared + (smooth * smooth))) with
\* dir = glm::normalize(b_pos - a_pos); the normal of a zero vector is NaN.
PairForce(a_pos, b_pos) ==
  LET d2 == distance_squared(a_pos, b_pos)
      len == SqrtBetween(d2, 0, 46340)
      dir == [k \in 1..3 |-> FDiv(b_pos[k] - a_pos[k], len)]
      inv == (One * One * One) \div (d2 + (smooth * smooth))
  IN  [k \in 1..3 |-> FMul(dir[k], inv)]

\* A force loop that clamps a near pair by the softening term only.
MajorSystem_force_clamped(particles, i, particle_count) ==
  LET RECURSIVE From(_)
      From(j) ==
        IF j > particle_count THEN <<0, 0, 0>>
        ELSE IF i = j THEN From(j + 1)
        ELSE LET f == PairForce(particles[i].pos, particles[j].pos)
                 force == From(j + 1)
             IN  [k \in 1..3 |-> FAdd(force[k], f[k])]
  IN  From(1)

\* The inner loop of step: the force on point i from the points below
\* particle_count.
MajorSystem_force(particles, i, particle_count) ==
  LET RECURSIVE From(_)
      From(j) ==
        IF j > particle_count THEN <<0, 0, 0>>
        ELSE IF i = j THEN From(j + 1)
        ELSE IF distance_squared(particles[i].pos, particles[j].pos)
                  < smooth * One
        THEN From(j + 1)
        ELSE LET f == PairForce(particles[i].pos, particles[j].pos)
                 force == From(j + 1)
             IN  [k \in 1..3 |-> FAdd(force[k], f[k])]
  IN  From(1)

\* A step whose position update is old position + old velocity * time_delta.
step_euler(l, m, time_delta) ==
  LET particle_count ==
        MajorSystem_size([particles_ |->
          IF l = "datviz" THEN Len(m.particles_) ELSE 6 * Len(m.particles_)])
      accel(i) == MajorSystem_force(m.particles_, i, particle_count)
  IN  [particles_ |->
         [i \in 1..particle_count |->
            [pos |-> m.particles_[i].pos,
             fine |-> [k \in 1..3 |->
                         FAdd(m.particles_[i].fine[k],
                              FMul(time_delta, m.velocity_[i][k]))],
             colour |-> m.particles_[i].colour]],
       velocity_ |->
         [i \in 1..particle_count |->
            [k \in 1..3 |->
               FAdd(m.velocity_[i][k], FMul(accel(i)[k], time_delta))]]]

\* MajorSystem::step, on a system of Len(m.particles_) points (vertices in
\* src/example/main.cpp, groups of 6 floats in
\* src/point_cloud_viewer_test.cpp).
step(l, m, time_delta) ==
  LET particle_count ==
        MajorSystem_size([particles_ |->
          IF l = "datviz" THEN Len(m.particles_) ELSE 6 * Len(m.particles_)])
      accel(i) == MajorSystem_force(m.particles_, i, particle_count)
      delta_p(i) ==
        [k \in 1..3 |->
           FAdd(FMul(FMul(One \div 2, FMul(time_delta, time_delta)),
                     accel(i)[k]),
                FMul(time_delta, m.velocity_[i][k]))]
  IN  [particles_ |->
         [i \in 1..particle_count |->
            [pos |-> m.particles_[i].pos,
             fine |-> [k \in 1..3 |->
                         FAdd(m.particles_[i].fine[k], delta_p(i)[k])],
             colour |-> m.particles_[i].colour]],
       velocity_ |->
         [i \in 1..particle_count |->
            [k \in 1..3 |->
               FAdd(m.velocity_[i][k], FMul(accel(i)[k], time_delta))]]]

\* MajorSystem major_system(size, rng): size points at consecutive
\* positions, each with a colour of its own, and size zero velocities.
StepInit ==
  /\ lib \in {"datviz", "pcl"}
  /\ glfw_inited = FALSE
  /\ win = NoWindow
  /\ gl = NewContext
  /\ events = {}
  /\ viewer = "none"
  /\ pv = pcl_viewer_struct
  /\ dv = Library
  /\ crashed = FALSE
  /\ call = NoCall
  /\ draw = NoDraw
  /\ req = InitialRequests(lib)
  /\ pc = "step"
  /\ iter = <<>>
  /\ hist = NoHistory
  /\ \E size \in 2..MaxParticles : \E first \in 1..Len(Ring) :
       ms = [particles_ |->
               [i \in 1..size |->
                  [pos |-> Ring[((first + i - 2) % Len(Ring)) + 1],
                   fine |-> <<0, 0, 0>>,
                   colour |-> i]],
             velocity_ |-> [i \in 1..size |-> <<0, 0, 0>>]]

\* major_system.step(1) of src/example/main.cpp, major_system.step(1e-1) of
\* src/point_cloud_viewer_test.cpp; the call is recorded with the force it
\* summed for each point.
Step ==
  /\ pc = "step"
  /\ Len(iter) < MaxSteps
  /\ LET time_delta == IF lib = "datviz" THEN One ELSE One \div 10
         particle_count ==
           MajorSystem_size([particles_ |->
             IF lib = "datviz" THEN Len(ms.particles_)
             ELSE 6 * Len(ms.particles_)])
     IN  /\ ms' = step(lib, ms, time_delta)
         /\ Called("step", <<time_delta>>,
                   [i \in 1..particle_count |->
                      MajorSystem_force(ms.particles_, i, particle_count)])
  /\ iter' = Append(iter, "step")
  /\ UNCHANGED <<lib, glfw_inited, win, gl, events, viewer, pv, dv, crashed,
                 draw, req, pc, hist>>

StepSpec == StepInit /\ [][Step]_vars

\* -------------------------------------------------------------------------
\* Properties
\* -------------------------------------------------------------------------


\* C1: whenever a render_points call issues its draw, the program, the
\* buffer and the vertex array the draw uses are non-zero objects of the
\* viewer: its linked program, its own buffer, its own vertex array.
C1_DrawUsesViewerObjects ==
  draw.issued =>
    /\ draw.program # 0 /\ draw.buffer # 0 /\ draw.vertex_array # 0
    /\ gl.objects[draw.program].kind = "program"
    /\ gl.objects[draw.program].ok
    /\ draw.program = IF lib = "datviz" THEN dv.id_ ELSE pv.program
    /\ draw.buffer = IF lib = "datviz" THEN dv.buffer_ ELSE pv.vertex_buffer
    /\ draw.vertex_array = IF lib = "datviz" THEN dv.array_ ELSE pv.vertex_array

\* C2: once a window could not be made, create has returned a null
\* pointer, no other viewer function was called on the viewer, and the
\* example program is at its null check or has left with EXIT_FAILURE;
\* it is never in the render loop.
C2_WindowFailureExits ==
  hist.window_failed =>
    /\ viewer = "null"
    /\ ~hist.other_calls
    /\ pc \in {"check", "exit_failure"}

\* C3: datviz_global_init returns zero exactly when glfwInit succeeds
\* (gives GLFW_TRUE), and a non-zero value when it fails.
C3_GlobalInitZeroOnSuccess ==
  call.op = "global_init" => (call.ret = 0 <=> call.args[1] = 1)

\* The calls of one iteration of the main loop with n integrator steps.
Iteration(n) ==
  <<"begin_frame", "render_points", "end_frame", "poll_input">>
    \o [i \in 1..n |-> "step"]


\* The main loop makes its calls in the order of the iteration e; at the
\* loop's head an iteration is either not begun or complete; after
\* should_close has returned non-zero main() is past the loop; render_points
\* is given the program's point_count; the viewer is destroyed never in the
\* loop, and exactly once when main() returns 0.
LoopOrder(e) ==
  /\ Len(iter) <= Len(e) /\ iter = SubSeq(e, 1, Len(iter))
  /\ pc = "should_close" => iter \in {<<>>, e}
  /\ pc \in {"destroy", "global_cleanup", "exit_success"} => iter \in {<<>>, e}
  /\ hist.closed => pc \in {"destroy", "global_cleanup", "exit_success"}
  /\ (pc = "end_frame" /\ call.op = "render_points")
       => call.args = <<point_count(lib)>>
  /\ hist.destroys = IF pc \in {"global_cleanup", "exit_success"} THEN 1 ELSE 0

\* C4, as the claim states it: in both example programs every iteration of
\* the main loop is begin_frame, render_points, end_frame, poll_input and
\* one integrator step, in that order; no iteration starts once
\* should_close has returned non-zero; the viewer is then destroyed once.
C4_OneStepPerIteration == LoopOrder(Iteration(1))

\* C4, amended: every iteration of the main loop is begin_frame,
\* render_points, end_frame, poll_input, and then one integrator step in
\* src/example/main.cpp but ten integrator steps in
\* src/point_cloud_viewer_test.cpp; no iteration starts once should_close
\* has returned non-zero; the viewer is then destroyed exactly once.
C4_LoopOrder == LoopOrder(Iteration(IF lib = "datviz" THEN 1 ELSE 10))

\* C4's case: the test program has left its loop after a whole iteration
\* of four viewer calls and ten steps, and has destroyed the viewer.
C4_Witness ==
  /\ lib = "pcl" /\ pc = "exit_success"
  /\ Len(iter) = 14 /\ iter[14] = "step"
  /\ hist.closed /\ hist.destroys = 1

\* C5: a compile failure of either shader or a link failure of the program
\* is reported: ShaderProgram::init of datviz returns false, and
\* pcl_viewer_create (GLFW and the window being fine) returns null and
\* hands out no viewer.
C5_FailureReported ==
  /\ (call.op = "ShaderProgram::init" /\ ~crashed
        /\ ~(call.args[1] /\ call.args[2] /\ call.args[3]))
       => call.ret = FALSE
  /\ (lib = "pcl" /\ call.op = "create" /\ call.args[2] /\ call.args[3]
        /\ ~(call.args[4] /\ call.args[5] /\ call.args[6]))
       => (call.ret = "null" /\ viewer = "null")

\* C6: after set_perspective(viewer, fovy, near, far) on a viewer with a
\* window, the viewer's projection transform is the perspective projection
\* of (fovy, width / height, near, far).
C6_PerspectiveArguments ==
  (call.op = "set_perspective" /\ win.created) =>
    (IF lib = "datviz" THEN dv.projection_transform_
     ELSE pv.projection_transform) =
      glm_perspective(call.args[1],
                      FDiv(FloatOfInt(win.fb[1]), FloatOfInt(win.fb[2])),
                      call.args[2], call.args[3])

\* C7: on a viewer with a window, should_close returns zero while the
\* window's close flag is not set, and returns non-zero when the call
\* before it was a poll_input that dispatched an exit click or an Escape
\* key press to the window.
C7_CloseAfterSignal ==
  [][(call'.op = "should_close" /\ win.created /\ ~crashed')
       => /\ ~win.should_close => call'.ret = 0
          /\ (call.op = "poll_input" /\ call.ret # {}) => call'.ret # 0]_vars

\* model x view x projection of the latest-set transforms.
ModelViewProjection == MatMul(MatMul(req.model, req.view), req.projection)

\* projection x view x model of the latest-set transforms.
ProjectionViewModel == MatMul(MatMul(req.projection, req.view), req.model)

\* C8, as the claim states it: the mvp uniform a render_points call draws
\* with is model x view x projection, in that order, of the transforms the
\* setters were last given (or their initial values).
C8_ModelViewProjection ==
  draw.issued => draw.uniform = ModelViewProjection

\* C8, amended: the matrix every render_points call hands to
\* glUniformMatrix4fv is projection x view x model of the transforms the
\* setters were last given (or their initial values).  In pcl_viewer it is
\* the value of the program's mvp uniform when the draw is issued; in datviz
\* the location it is handed to is -1 and no uniform takes it.
C8_ProjectionViewModel ==
  draw.issued =>
    /\ draw.mvp = ProjectionViewModel
    /\ lib = "pcl" => draw.location # 0 - 1 /\ draw.uniform = draw.mvp
    /\ lib = "datviz" => draw.location = 0 - 1

\* C8's case: a pcl_viewer draw after a model transform was set, with
\* transforms whose product depends on the order.
C8_Witness ==
  /\ lib = "pcl" /\ draw.issued
  /\ req.model = Translate /\ req.view = Scale2
  /\ draw.uniform = ProjectionViewModel
  /\ ProjectionViewModel # ModelViewProjection

\* C9: every begin_frame on a viewer with a window fills the frame with the
\* colour the latest set_background before it was given (alpha 1 in
\* pcl_viewer), or opaque black if there was none; a set_background call
\* changes neither the frame displayed nor the frame being drawn.
C9_Background ==
  [][/\ (call'.op = "begin_frame" /\ win'.created)
          => (gl'.back.color = req.background /\ req' = req)
     /\ (call'.op = "set_background")
          => (gl'.front = gl.front /\ gl'.back = gl.back)
     /\ (viewer' = "live" /\ viewer # "live") => req'.background = Black]_vars

\* C9's case: a frame filled with a colour set_background was given, while
\* another frame is displayed.
C9_Witness ==
  /\ call.op = "begin_frame" /\ win.created
  /\ req.background # Black
  /\ gl.back.color = req.background
  /\ gl.front.color = Black

\* C10: a render_points call with point_count = n uploads n x 24 bytes to
\* the viewer's buffer, has the colour attribute read as three floats at
\* byte offset 12 of each 24 bytes, and draws n points.
C10_PointLayout ==
  draw.issued =>
    /\ draw.count = call.args[1]
    /\ draw.bytes = call.args[1] * 24
    /\ draw.stored = draw.bytes
    /\ draw.color.size = 3 /\ draw.color.type = "GL_FLOAT"
    /\ draw.color.offset = 12 /\ draw.color.stride = 24

\* C11: with loggers registered, a datviz call that could not make the
\* window (set_window_title, set_perspective or begin_frame left without a
\* window) or that detected a GL error (begin_frame returning false) has
\* invoked every registered callback, in order, each with its own data
\* pointer.
C11_ErrorsLogged ==
  (/\ lib = "datviz" /\ dv.loggers # <<>>
   /\ \/ call.op \in {"set_window_title", "set_perspective"} /\ ~win.created
      \/ call.op = "begin_frame" /\ call.ret = FALSE)
    => /\ Len(call.logged) = Len(dv.loggers)
       /\ \A i \in 1..Len(dv.loggers) :
            /\ call.logged[i].data = dv.loggers[i][1]
            /\ call.logged[i].callback = dv.loggers[i][2]

\* C12: once the MajorSystem is constructed, however many steps were made,
\* its velocity array holds point_count entries and its particle buffer
\* point_count points (point_count vertices in src/example/main.cpp,
\* 6 * point_count floats in src/point_cloud_viewer_test.cpp).
C12_SizePreserved ==
  pc \notin {"global_init", "construct"} =>
    /\ ms.velocity_ = point_count(lib)
    /\ ms.particles_ = IF lib = "datviz" THEN point_count(lib)
                       ELSE 6 * point_count(lib)

\* C13: the window datviz_should_close hands to glfwWindowShouldClose
\* exists, whatever calls were made on the viewer before.
C13_WindowExists ==
  (lib = "datviz" /\ call.op = "should_close") =>
    (call.args = <<"window_">> /\ call.ret \in {0, 1})

RECURSIVE ForceFrom(_, _, _)
\* The sum of one contribution dir / (distance_squared + smooth * smooth) to
\* point i from each point of J.
ForceFrom(particles, i, J) ==
  IF J = {} THEN <<0, 0, 0>>
  ELSE LET j == CHOOSE n \in J : TRUE
           f == PairForce(particles[i].pos, particles[j].pos)
           force == ForceFrom(particles, i, J \ {j})
       IN  [k \in 1..3 |-> FAdd(force[k], f[k])]

\* C14 (as stated): a step sums a force for every point the system holds,
\* and the force on point i is the sum of one contribution from every other
\* point j # i at its position before the step, a near pair included.
C14_EveryOtherPoint ==
  [][call'.op = "step" /\ iter' # iter =>
       LET P == ms.particles_
       IN  /\ Len(call'.ret) = Len(P)
           /\ \A i \in 1..Len(P) :
                call'.ret[i] = ForceFrom(P, i, (1..Len(P)) \ {i})]_vars

\* C14 (amended): a step sums a force for each of the first size() points,
\* size() being the number of points held in
\* src/point_cloud_viewer_test.cpp and a sixth of it (rounded down) in
\* src/example/main.cpp; the force on point i is the sum of one contribution
\* from every other point j # i below size() whose squared distance to i,
\* before the step, is at least smooth: nearer pairs are skipped.
C14_SkipsNearPairs ==
  [][call'.op = "step" /\ iter' # iter =>
       LET P == ms.particles_
           size == IF lib = "datviz" THEN Len(P) \div 6 ELSE Len(P)
       IN  /\ Len(call'.ret) = size
           /\ \A i \in 1..size :
                call'.ret[i] =
                  ForceFrom(P, i,
                    {j \in (1..size) \ {i} :
                       distance_squared(P[i].pos, P[j].pos)
                         >= smooth * One})]_vars

\* A step of the test's system has summed a non-zero force for a point that
\* has another point nearer than smooth.
C14_Witness ==
  /\ lib = "pcl" /\ call.op = "step"
  /\ \E i, j \in 1..Len(ms.particles_) :
       /\ i # j
       /\ distance_squared(ms.particles_[i].pos, ms.particles_[j].pos)
            < smooth * One
       /\ call.ret[i] # <<0, 0, 0>>

\* C15 (as stated): a step keeps every point, gives it the velocity
\* old velocity + acceleration * time_delta and the position
\* old position + old velocity * time_delta, and copies its colour.
C15_ExplicitEuler ==
  [][call'.op = "step" /\ iter' # iter =>
       LET time_delta == call'.args[1]
       IN  /\ Len(ms'.particles_) = Len(ms.particles_)
           /\ Len(ms'.velocity_) = Len(ms.velocity_)
           /\ \A i \in 1..Len(ms.particles_) :
                /\ ms'.particles_[i].colour = ms.particles_[i].colour
                /\ ms'.particles_[i].pos = ms.particles_[i].pos
                /\ \A k \in 1..3 :
                     /\ ms'.velocity_[i][k] =
                          FAdd(ms.velocity_[i][k],
                               FMul(call'.ret[i][k], time_delta))
                     /\ ms'.particles_[i].fine[k] =
                          FAdd(ms.particles_[i].fine[k],
                               FMul(ms.velocity_[i][k], time_delta))]_vars

\* C15 (amended): a step keeps the first size() points (all of them in
\* src/point_cloud_viewer_test.cpp, a sixth in src/example/main.cpp) and
\* gives each the velocity old velocity + acceleration * time_delta and the
\* position old position + old velocity * time_delta
\* + 0.5 * time_delta^2 * acceleration, and copies its colour.
C15_SecondOrderPosition ==
  [][call'.op = "step" /\ iter' # iter =>
       LET time_delta == call'.args[1]
           size == IF lib = "datviz" THEN Len(ms.particles_) \div 6
                   ELSE Len(ms.particles_)
       IN  /\ Len(ms'.particles_) = size
           /\ Len(ms'.velocity_) = size
           /\ \A i \in 1..size :
                /\ ms'.particles_[i].colour = ms.particles_[i].colour
                /\ ms'.particles_[i].pos = ms.particles_[i].pos
                /\ \A k \in 1..3 :
                     /\ ms'.velocity_[i][k] =
                          FAdd(ms.velocity_[i][k],
                               FMul(call'.ret[i][k], time_delta))
                     /\ ms'.particles_[i].fine[k] =
                          FAdd(FAdd(ms.particles_[i].fine[k],
                                    FMul(ms.velocity_[i][k], time_delta)),
                               FMul(FMul(One \div 2,
                                         FMul(time_delta, time_delta)),
                                    call'.ret[i][k]))]_vars

\* A second step of the test's system has moved a point that had a non-zero
\* velocity and a non-zero acceleration.
C15_Witness ==
  /\ lib = "pcl" /\ call.op = "step" /\ Len(iter) = 2
  /\ \E i \in 1..Len(ms.particles_) : \E k \in 1..3 :
       /\ call.ret[i][k] # 0
       /\ ms.velocity_[i][k] # 0
       /\ ms.particles_[i].fine[k] # 0
====
